---- MODULE Spec2Model ----
(***************************************************************************)
(* Model of the batch pipeline orchestrator of ImgPdfSquisher:             *)
(* MangaCompressorModular.compress_pdf / _compress_with_modules /          *)
(* _process_batch_modular, the request_stop thread, the extraction thread  *)
(* pool and the per-batch compression process pool.                        *)
(*                                                                         *)
(* Range indices and the counters next_submit / next_process are 0-based   *)
(* as in the source; ranges[k + 1] is the source's ranges[k].  The index   *)
(* of a compression task is its 1-based position in image_paths (the       *)
(* source enumerates from 0).                                              *)
(***************************************************************************)
EXTENDS Integers, Sequences, FiniteSets, TLC

\* ------------------------------------------------------------- bounds
MaxPages == 9
MaxWorkers == 2
MaxStops == 1
MaxInvalid == 1
MaxFailed == 1
MaxPlanPages == 140
MaxPlanRamPages == 70
MaxBudgetPages == 104
MaxBudgetHalfPages == 210
MaxReusePages == 2
MaxRepeatStops == 2
MaxStatPages == 12
MaxElapsed == 12
MaxWindowWorkers == 6
MaxWindowPages == 25
MaxWindowBatch == 1
MaxWaitPages == 2
MaxRacePages == 9
MaxSamples == 20

\* -------------------------------------------------- program constants
MIN_BATCH_SIZE == 3
MAX_BATCH_SIZE == 100
ESTIMATED_MB_PER_PAGE == 12
HARD_MIN_BATCH == 8
HARD_MAX_BATCH == 64
MAX_PREFETCH == 3
\* The classification thresholds 0.85 and 0.95, in percent.
BW_DETECTION_THRESHOLD == 85
GRAYSCALE_THRESHOLD == 95

\* ------------------------------------------------------------ helpers
Min(a, b) == IF a < b THEN a ELSE b

Max(a, b) == IF a > b THEN a ELSE b

\* get_optimal_batch_size returning the clamped size without the final
\* min(optimal_size, total_pages).
get_optimal_batch_size_Uncapped(total, available_mb, ssd) ==
    LET ram_pages == available_mb \div ESTIMATED_MB_PER_PAGE
        scaled == IF ssd THEN (ram_pages * 3) \div 2 ELSE (ram_pages * 4) \div 5
    IN  Max(MIN_BATCH_SIZE, Min(MAX_BATCH_SIZE, scaled))

\* SystemOptimizer.get_optimal_batch_size, with the available RAM given in
\* whole MB (available_ram_gb * 1024) and int() of a non-negative product
\* as integer division: int(r * 1.5) = 3r div 2, int(r * 0.8) = 4r div 5.
get_optimal_batch_size(total, available_mb, ssd) ==
    LET ram_pages == available_mb \div ESTIMATED_MB_PER_PAGE
        scaled == IF ssd THEN (ram_pages * 3) \div 2 ELSE (ram_pages * 4) \div 5
        optimal_size == Max(MIN_BATCH_SIZE, Min(MAX_BATCH_SIZE, scaled))
    IN  Min(optimal_size, total)

\* MemoryMonitor.calculate_optimal_batch_size with the default mb_per_page,
\* the available RAM given in whole MB as above.
calculate_optimal_batch_size(total, available_mb) ==
    LET max_pages_by_ram == available_mb \div ESTIMATED_MB_PER_PAGE
        optimal_size == Max(MIN_BATCH_SIZE, Min(MAX_BATCH_SIZE, max_pages_by_ram))
    IN  Min(optimal_size, total)

\* The budget's result used as it comes, with no hard window.
ChooseBatchSize_Unclamped(total, available_mb, ssd) ==
    get_optimal_batch_size(total, available_mb, ssd)

\* batch_size = max(8, min(optimal_batch, 64))
ChooseBatchSize(total, available_mb, ssd) ==
    Max(HARD_MIN_BATCH, Min(get_optimal_batch_size(total, available_mb, ssd), HARD_MAX_BATCH))

\* for start_page in range(1, total_pages + 1, batch_size): ...
RECURSIVE RangesFrom(_, _, _)
RangesFrom(start_page, total, size) ==
    IF start_page > total THEN << >>
    ELSE << << start_page, Min(start_page + size - 1, total) >> >>
         \o RangesFrom(start_page + size, total, size)

\* The ranges cut without min(..., total_pages) on the last end_page.
RECURSIVE RangesUnclamped(_, _, _)
RangesUnclamped(start_page, total, size) ==
    IF start_page > total THEN << >>
    ELSE << << start_page, start_page + size - 1 >> >>
         \o RangesUnclamped(start_page + size, total, size)

ComputeRanges_Unclamped(total, size) == RangesUnclamped(1, total, size)

ComputeRanges(total, size) == RangesFrom(1, total, size)

\* prefetch_batches = min(3, max(1, self.compression_workers // 2))
PrefetchDepth(workers) == Min(MAX_PREFETCH, Max(1, workers \div 2))

\* The pages first .. last in order (an extraction's full, ordered result).
RECURSIVE PageSeq(_, _)
PageSeq(first, last) ==
    IF first > last THEN << >> ELSE << first >> \o PageSeq(first + 1, last)

\* What convert_from_path can hand back for a range: every page in order,
\* fewer pages than asked for (here only the first page of the range), or
\* nothing (extract_page_range turns every exception into []).
ExtractOutcomes(r) ==
    { PageSeq(r[1], r[2]), PageSeq(r[1], r[1]), << >> }

\* list.sort(key=lambda x: x[0]) on the list of task indices: insertion sort.
RECURSIVE InsertSorted(_, _)
InsertSorted(x, s) ==
    IF s = << >> THEN << x >>
    ELSE IF x <= Head(s) THEN << x >> \o s
    ELSE << Head(s) >> \o InsertSorted(x, Tail(s))

\* The results left in completion order.
SortByIdx_Unsorted(s) == s

RECURSIVE SortByIdx(_)
SortByIdx(s) ==
    IF s = << >> THEN << >> ELSE InsertSorted(Head(s), SortByIdx(Tail(s)))

\* ---------------------------------------------------------------- state
VARIABLES
    pc,                  \* position of the thread running compress_pdf
    result,              \* "none" | "true" | "false" | "raised"
    exitLine,            \* source line of the return statement taken (0: none)
    stop_requested,      \* self._stop_requested
    stop_checker,        \* what self._stop_checker() answers now
    executor,            \* self._executor: 0 is None, else the batch number
    rpc,                 \* request_stop thread: "idle" | "cancel"
    stops,               \* request_stop calls made so far
    stopped_at,          \* phase of compress when request_stop first set the flag
    ex,                  \* the local ex of _cancel_active_workers in that thread (0: None)
    compression_workers, \* self.compression_workers
    total_pages, batch_size, ranges, prefetch_batches,
    futures,             \* the dict futures: range idx -> [state, paths]
    extract_kind,        \* per range: what its extraction came back with
    next_submit, next_process,
    image_paths,         \* pages of the batch being processed
    tasks,               \* per compression task: its future's state
    failed_batch,        \* batch number of the first task that raised (0: none)
    pool,                \* the batch's ProcessPoolExecutor
    yielded,             \* tasks as_completed has handed to the loop
    results,             \* the list results (task indices)
    reordered,           \* some batch's results were out of order before the sort
    write_pos,           \* position of the writing loop in results
    invalid_used,        \* results with invalid dimensions met so far
    output,              \* pages appended to the canvas, in order
    pages_processed,     \* self.stats.pages_processed
    events,              \* events handed to progress_cb
    temp_dir,            \* the TemporaryDirectory exists
    temp_output,         \* temp_dir/output.pdf exists
    scratch,             \* pages whose raster is in temp_dir/tmp
    out_file,            \* a file, whole or not, has been put at output_path
    probe                \* one application of a pure function: its inputs and result

vars == << pc, result, exitLine, stop_requested, stop_checker, executor, rpc,
           stops, stopped_at, ex, compression_workers, total_pages, batch_size,
           ranges, prefetch_batches, futures, extract_kind, next_submit,
           next_process, image_paths, tasks, failed_batch, pool, yielded, results,
           reordered, write_pos, invalid_used, output, pages_processed, events, temp_dir,
           temp_output, scratch, out_file, probe >>

stopVars == << stop_requested, stop_checker, rpc, stops, stopped_at, ex >>

planVars == << total_pages, batch_size, ranges, prefetch_batches >>

windowVars == << futures, extract_kind, next_submit, next_process >>

batchVars == << image_paths, tasks, failed_batch, pool, yielded, results,
                reordered, write_pos, invalid_used >>

diskVars == << temp_dir, temp_output, scratch, out_file >>

\* __init__ and the state before compress_pdf is called.
InitWith(workerChoices) ==
    /\ pc = "init"
    /\ result = "none"
    /\ exitLine = 0
    /\ stop_requested = FALSE
    /\ stop_checker = FALSE
    /\ executor = 0
    /\ rpc = "idle"
    /\ stops = 0
    /\ stopped_at = "never"
    /\ ex = 0
    /\ compression_workers \in workerChoices
    /\ total_pages = 0
    /\ batch_size = 0
    /\ ranges = << >>
    /\ prefetch_batches = 0
    /\ futures = << >>
    /\ extract_kind = << >>
    /\ next_submit = 0
    /\ next_process = 0
    /\ image_paths = << >>
    /\ tasks = << >>
    /\ failed_batch = 0
    /\ pool = "none"
    /\ yielded = {}
    /\ results = << >>
    /\ reordered = FALSE
    /\ write_pos = 0
    /\ invalid_used = 0
    /\ output = << >>
    /\ pages_processed = 0
    /\ events = << >>
    /\ temp_dir = FALSE
    /\ temp_output = FALSE
    /\ scratch = {}
    /\ out_file = FALSE
    /\ probe = [fn |-> "none"]

Init == InitWith(1 .. MaxWorkers)

\* --------------------------------------------------------- leaving compress
\* A return statement inside the `with TemporaryDirectory` block: the value is
\* fixed, the context managers still have to unwind.
Return(value, line) ==
    /\ pc' = "unwind"
    /\ result' = value
    /\ exitLine' = line

\* A directory made with mkdtemp and never removed.
Cleanup_LeavesFiles == UNCHANGED << temp_dir, temp_output, scratch >>

\* TemporaryDirectory.__exit__: the per-run directory and all it holds go.
Cleanup ==
    /\ temp_dir' = FALSE
    /\ temp_output' = FALSE
    /\ scratch' = {}

LiveFutures == { k \in DOMAIN futures : futures[k].state \in {"queued", "running"} }

\* ThreadPoolExecutor.__exit__ (shutdown(wait=True)) joins the extraction
\* threads, then the file is closed, the locals of _compress_with_modules go
\* out of scope and the TemporaryDirectory is removed.
Unwind ==
    /\ pc = "unwind"
    /\ LiveFutures = {}
    /\ pc' = "returned"
    /\ Cleanup
    /\ futures' = << >>
    /\ next_submit' = 0
    /\ next_process' = 0
    /\ image_paths' = << >>
    /\ UNCHANGED << result, exitLine, executor, compression_workers, probe, out_file,
                    output, pages_processed, events, extract_kind, tasks, pool,
                    failed_batch, yielded, results, reordered, write_pos,
                    invalid_used >>
    /\ UNCHANGED << stopVars, planVars >>

\* ------------------------------------------------------------ compress_pdf
\* Lines 94-104: the input check, a new CompressionStats, stat, mkdir and
\* TemporaryDirectory, all outside the try block.
Call ==
    /\ pc = "init"
    /\ \E outcome \in {"missing", "raises", "ok"} :
         CASE outcome = "missing" ->
                /\ pc' = "returned" /\ result' = "false" /\ exitLine' = 98
                /\ UNCHANGED << temp_dir, pages_processed >>
           [] outcome = "raises" ->
                /\ pc' = "returned" /\ result' = "raised" /\ exitLine' = 0
                /\ pages_processed' = 0
                /\ UNCHANGED temp_dir
           [] OTHER ->
                /\ pc' = "precheck" /\ temp_dir' = TRUE
                /\ pages_processed' = 0
                /\ UNCHANGED << result, exitLine >>
    /\ UNCHANGED << executor, compression_workers, probe, output,
                    events, temp_output, scratch, out_file >>
    /\ UNCHANGED << stopVars, planVars, windowVars, batchVars >>

\* Lines 106-107.
PreCheck ==
    /\ pc = "precheck"
    /\ IF stop_checker THEN Return("false", 107)
       ELSE pc' = "analyze" /\ UNCHANGED << result, exitLine >>
    /\ UNCHANGED << executor, compression_workers, probe, output, pages_processed, events >>
    /\ UNCHANGED << stopVars, planVars, windowVars, batchVars, diskVars >>

\* What can go wrong while the pages are counted: nothing, no rasterizer
\* installed (PDFInfoNotInstalledError), a document that cannot be read.
PageCountFailures == {"none", "no_rasterizer", "unreadable"}

\* PDFExtractor.get_page_count on a document of `pages` pages: every
\* exception is caught and answered with 0.
get_page_count(failure, pages) == IF failure # "none" THEN 0 ELSE pages

\* The zero-page test left out.
NoPages_Never(counted) == FALSE

\* if total_pages == 0 (line 138)
NoPages(counted) == counted = 0

\* Every range submitted before the loop starts.
InitialFill_All(n, depth) == n

\* while next_submit < len(ranges) and len(futures) < prefetch_batches:
\* how many ranges are submitted before the loop starts.
InitialFill(n, depth) == Min(n, depth)

\* submit_job for the range indices from .. to - 1
Submitted(old, from, to) ==
    [k \in (DOMAIN old) \cup (from .. to - 1) |->
        IF k \in DOMAIN old THEN old[k] ELSE [state |-> "queued", paths |-> << >>]]

\* Lines 137-174: count the pages, choose the batch size, make the scratch
\* folder and the temp output, cut the ranges, submit the first extractions.
Analyze(pageChoices, ramChoices) ==
    /\ pc = "analyze"
    /\ \E pages \in pageChoices, failure \in PageCountFailures,
          available_mb \in ramChoices, has_ssd \in BOOLEAN, io_fails \in BOOLEAN :
         LET counted == get_page_count(failure, pages) IN
         IF NoPages(counted)
         THEN /\ Return("false", 140)
              /\ UNCHANGED << planVars, windowVars, temp_output >>
         ELSE /\ total_pages' = counted
              /\ batch_size' = ChooseBatchSize(counted, available_mb, has_ssd)
              /\ IF io_fails
                 THEN /\ Return("false", 219)
                      /\ UNCHANGED << ranges, prefetch_batches, windowVars, temp_output >>
                 ELSE /\ temp_output' = TRUE
                      /\ ranges' = ComputeRanges(counted, batch_size')
                      /\ prefetch_batches' = PrefetchDepth(compression_workers)
                      /\ next_submit' = InitialFill(Len(ranges'), prefetch_batches')
                      /\ futures' = Submitted(<< >>, 0, next_submit')
                      /\ extract_kind' = [k \in 1 .. Len(ranges') |-> "none"]
                      /\ next_process' = 0
                      /\ pc' = "loop"
                      /\ UNCHANGED << result, exitLine >>
    /\ UNCHANGED << executor, compression_workers, probe, output, pages_processed,
                    events, temp_dir, scratch, out_file >>
    /\ UNCHANGED << stopVars, batchVars >>

\* ------------------------------------------------- the extraction pool
\* A pool thread takes a submitted job off the queue.
ExtractStart(k) ==
    /\ k \in DOMAIN futures
    /\ futures[k].state = "queued"
    /\ futures' = [futures EXCEPT ![k].state = "running"]
    /\ UNCHANGED << pc, result, exitLine, executor, compression_workers, probe, output,
                    pages_processed, events, extract_kind, next_submit, next_process >>
    /\ UNCHANGED << stopVars, planVars, batchVars, diskVars >>

ExtractKind(r, paths) ==
    IF paths = << >> THEN "empty"
    ELSE IF Len(paths) = r[2] - r[1] + 1 THEN "full" ELSE "short"

\* PDFExtractor.extract_page_range finishes: the rasters are in the scratch
\* folder and their paths are the future's result.
ExtractFinish(k) ==
    /\ k \in DOMAIN futures
    /\ futures[k].state = "running"
    /\ \E paths \in ExtractOutcomes(ranges[k + 1]) :
         /\ futures' = [futures EXCEPT ![k] = [state |-> "done", paths |-> paths]]
         /\ extract_kind' = [extract_kind EXCEPT ![k + 1] = ExtractKind(ranges[k + 1], paths)]
         /\ scratch' = scratch \cup { paths[i] : i \in 1 .. Len(paths) }
    /\ UNCHANGED << pc, result, exitLine, executor, compression_workers, probe, output,
                    pages_processed, events, next_submit, next_process,
                    temp_dir, temp_output, out_file >>
    /\ UNCHANGED << stopVars, planVars, batchVars >>

\* ------------------------------------------------ _compress_with_modules
\* Lines 175-181: the head of the while loop.
LoopTop ==
    /\ pc = "loop"
    /\ next_process < Len(ranges)
    /\ IF stop_checker THEN Return("false", 178)
       ELSE /\ pc' = IF next_process \in DOMAIN futures THEN "extract" ELSE "break"
            /\ UNCHANGED << result, exitLine >>
    /\ UNCHANGED << executor, compression_workers, probe, output, pages_processed, events >>
    /\ UNCHANGED << stopVars, planVars, windowVars, batchVars, diskVars >>

\* _cancel_active_workers on the pool self._executor names: pending work is
\* cancelled, the worker processes are terminated, the handle is cleared.
Running(t, i) ==
    /\ t[i] = "pending"
    /\ Cardinality({ j \in 1 .. i - 1 : t[j] = "pending" }) < compression_workers

CancelTasks(t) ==
    [i \in DOMAIN t |->
        IF t[i] = "pending"
        THEN (IF Running(t, i) THEN "broken" ELSE "cancelled")
        ELSE t[i]]

\* extractor_pool.shutdown(wait=False, cancel_futures=True)
CancelQueued(fs) ==
    [k \in DOMAIN fs |->
        IF fs[k].state = "queued" THEN [fs[k] EXCEPT !.state = "cancelled"] ELSE fs[k]]

\* Lines 182-196: one pass of the polling loop on the oldest pending range.
ExtractPoll ==
    /\ pc = "extract"
    /\ IF stop_checker \/ stop_requested
       THEN /\ futures' = CancelQueued(futures)
            /\ executor' = 0
            /\ pool' = IF executor # 0 THEN "shutdown" ELSE pool
            /\ tasks' = IF executor # 0 THEN CancelTasks(tasks) ELSE tasks
            /\ Return("false", 190)
            /\ UNCHANGED image_paths
       ELSE IF futures[next_process].state = "done"
       THEN /\ image_paths' = futures[next_process].paths
            /\ futures' = [k \in (DOMAIN futures) \ {next_process} |-> futures[k]]
            /\ pc' = "batch"
            /\ UNCHANGED << result, exitLine, executor, pool, tasks >>
       ELSE UNCHANGED << pc, result, exitLine, executor, pool, tasks, futures, image_paths >>
    /\ UNCHANGED << compression_workers, probe, output, pages_processed, events,
                    extract_kind, next_submit, next_process, yielded, results,
                    failed_batch, reordered, write_pos, invalid_used >>
    /\ UNCHANGED << stopVars, planVars, diskVars >>

\* Lines 198, 264-276: _process_batch_modular is entered.
BatchStart ==
    /\ pc = "batch"
    /\ IF image_paths = << >>
       THEN /\ pc' = "batch_done"
            /\ UNCHANGED << executor, tasks, pool, yielded, results >>
       ELSE /\ executor' = next_process + 1
            /\ pool' = "active"
            /\ tasks' = [i \in 1 .. Len(image_paths) |-> "pending"]
            /\ yielded' = {}
            /\ results' = << >>
            /\ pc' = "compress"
    /\ UNCHANGED << result, exitLine, compression_workers, probe, output, pages_processed,
                    events, image_paths, failed_batch, reordered, write_pos,
                    invalid_used >>
    /\ UNCHANGED << stopVars, planVars, windowVars, diskVars >>

\* ------------------------------------------------ the compression pool
\* process_image_worker raises in a worker process: the task's future holds
\* the exception until as_completed hands it to the loop.
TaskFails(i) ==
    /\ pc = "compress"
    /\ pool = "active"
    /\ i \in DOMAIN tasks
    /\ Running(tasks, i)
    /\ Cardinality({ j \in DOMAIN tasks : tasks[j] = "fail" }) < MaxFailed
    /\ tasks' = [tasks EXCEPT ![i] = "fail"]
    /\ failed_batch' = IF failed_batch = 0 THEN next_process + 1 ELSE failed_batch
    /\ UNCHANGED << pc, result, exitLine, executor, compression_workers, probe, output,
                    pages_processed, events, image_paths, pool, yielded, results,
                    reordered, write_pos, invalid_used >>
    /\ UNCHANGED << stopVars, planVars, windowVars, diskVars >>

\* The finally block of lines 296-301 leaving self._executor as it is.
ReleasedHandle_Kept(handle) == handle

\* self._executor = None (line 301)
ReleasedHandle(handle) == 0

\* The locals of _process_batch_modular are gone once it has returned.
DropBatchLocals ==
    /\ tasks' = << >>
    /\ yielded' = {}
    /\ results' = << >>
    /\ write_pos' = 0

\* Lines 278-301 (and 306): a future finishes and as_completed hands it to
\* the loop, whose body runs; after the last future the pool is shut down and
\* the results are sorted.  The future is one a worker process is running
\* (process_image_worker returns), one whose worker has raised, or one
\* request_stop has cancelled or broken.  On every way out the finally block
\* shuts the pool down and
\* clears self._executor.
AbortBatch(line) ==
    /\ pool' = "shutdown"
    /\ executor' = ReleasedHandle(executor)
    /\ DropBatchLocals
    /\ Return("false", line)
    /\ UNCHANGED reordered

\* The loop body with `continue` in place of `return False` at line 295.
Yield_SkipFailed(i) ==
    /\ pc = "compress"
    /\ i \in DOMAIN tasks
    /\ i \notin yielded
    /\ tasks[i] = "pending" => pool = "active" /\ Running(tasks, i)
    /\ LET outcome == IF tasks[i] = "pending" THEN "ok" ELSE tasks[i]
           collected == IF outcome = "ok" THEN Append(results, i) ELSE results IN
       IF stop_checker \/ stop_requested THEN AbortBatch(282)
       ELSE IF outcome = "cancelled" THEN AbortBatch(292)
       ELSE IF yielded \cup {i} = DOMAIN tasks
       THEN /\ results' = SortByIdx(collected)
            /\ reordered' = (reordered \/ results' # collected)
            /\ pool' = "shutdown"
            /\ executor' = 0
            /\ tasks' = << >>
            /\ yielded' = {}
            /\ write_pos' = 1
            /\ pc' = IF collected = << >> THEN "batch_done" ELSE "write"
            /\ UNCHANGED << result, exitLine >>
       ELSE /\ results' = collected
            /\ yielded' = yielded \cup {i}
            /\ tasks' = [tasks EXCEPT ![i] = outcome]
            /\ UNCHANGED << pc, result, exitLine, executor, pool, reordered, write_pos >>
    /\ UNCHANGED << compression_workers, probe, output, pages_processed, events,
                    image_paths, failed_batch, invalid_used >>
    /\ UNCHANGED << stopVars, planVars, windowVars, diskVars >>

Yield(i) ==
    /\ pc = "compress"
    /\ i \in DOMAIN tasks
    /\ i \notin yielded
    /\ tasks[i] = "pending" => pool = "active" /\ Running(tasks, i)
    /\ LET outcome == IF tasks[i] = "pending" THEN "ok" ELSE tasks[i] IN
       IF stop_checker \/ stop_requested THEN AbortBatch(282)
       ELSE IF outcome = "cancelled" THEN AbortBatch(292)
       ELSE IF outcome # "ok" THEN AbortBatch(295)
       ELSE IF yielded \cup {i} = DOMAIN tasks
       THEN /\ results' = SortByIdx(Append(results, i))
            /\ reordered' = (reordered \/ results' # Append(results, i))
            /\ pool' = "shutdown"
            /\ executor' = ReleasedHandle(executor)
            /\ tasks' = << >>
            /\ yielded' = {}
            /\ write_pos' = 1
            /\ pc' = "write"
            /\ UNCHANGED << result, exitLine >>
       ELSE /\ results' = Append(results, i)
            /\ yielded' = yielded \cup {i}
            /\ tasks' = [tasks EXCEPT ![i] = "ok"]
            /\ UNCHANGED << pc, result, exitLine, executor, pool, reordered, write_pos >>
    /\ UNCHANGED << compression_workers, probe, output, pages_processed, events,
                    image_paths, failed_batch, invalid_used >>
    /\ UNCHANGED << stopVars, planVars, windowVars, diskVars >>

\* The writing loop with `continue` in place of `return False` at line 329.
WritePage_ContinuesAfterError ==
    /\ pc = "write"
    /\ write_pos <= Len(results)
    /\ \E outcome \in {"ok", "invalid", "error"} :
         /\ outcome = "invalid" => invalid_used < MaxInvalid
         /\ output' = IF outcome = "ok"
                      THEN Append(output, image_paths[results[write_pos]])
                      ELSE output
         /\ invalid_used' = IF outcome = "invalid" THEN invalid_used + 1 ELSE invalid_used
         /\ IF write_pos = Len(results)
            THEN pc' = "batch_done" /\ DropBatchLocals
            ELSE /\ write_pos' = write_pos + 1
                 /\ UNCHANGED << pc, tasks, yielded, results >>
         /\ UNCHANGED << result, exitLine >>
    /\ UNCHANGED << executor, compression_workers, probe, pages_processed, events,
                    image_paths, failed_batch, pool, reordered >>
    /\ UNCHANGED << stopVars, planVars, windowVars, diskVars >>

\* Lines 309-334: one pass of the writing loop.
WritePage ==
    /\ pc = "write"
    /\ write_pos <= Len(results)
    /\ \E outcome \in {"ok", "invalid", "error"} :
         /\ outcome = "invalid" => invalid_used < MaxInvalid
         /\ IF outcome = "error"
            THEN /\ Return("false", 329)
                 /\ DropBatchLocals
                 /\ UNCHANGED << output, invalid_used >>
            ELSE /\ output' = IF outcome = "ok"
                              THEN Append(output, image_paths[results[write_pos]])
                              ELSE output
                 /\ invalid_used' = IF outcome = "ok" THEN invalid_used ELSE invalid_used + 1
                 /\ IF write_pos = Len(results)
                    THEN pc' = "batch_done" /\ DropBatchLocals
                    ELSE /\ write_pos' = write_pos + 1
                         /\ UNCHANGED << pc, tasks, yielded, results >>
                 /\ UNCHANGED << result, exitLine >>
    /\ UNCHANGED << executor, compression_workers, probe, pages_processed, events,
                    image_paths, failed_batch, pool, reordered >>
    /\ UNCHANGED << stopVars, planVars, windowVars, diskVars >>

\* No callback call: the event is dropped.
Publish_Drop(published, e) == published

\* if self.progress_cb: self.progress_cb(e), for a caller that listens.
Publish(published, e) == Append(published, e)

Event(kind, processed) ==
    [event |-> kind, pages_processed |-> processed, pages_total |-> total_pages]

\* The counter advanced by the nominal batch size, whatever was extracted.
CountBatch_Nominal(processed, paths) == processed + batch_size

\* self.stats.pages_processed += len(image_paths)
CountBatch(processed, paths) == processed + Len(paths)

\* The rasters of a finished batch left in the scratch folder.
safe_delete_files_Keep(files, paths) == files

\* _safe_delete_files(image_paths), lines 336-341.
safe_delete_files(files, paths) == files \ { paths[i] : i \in 1 .. Len(paths) }

\* No range submitted once the loop is running.
Refill_Never(ns, n) == FALSE

\* if next_submit < len(ranges) (line 207)
Refill(ns, n) == ns < n

\* The loop moving on past the range after the one it has just finished.
AdvanceProcess_Skip(np) == np + 2

\* next_process += 1 (line 210)
AdvanceProcess(np) == np + 1

\* Lines 199-210: the batch came back True.
BatchDone ==
    /\ pc = "batch_done"
    /\ pages_processed' = CountBatch(pages_processed, image_paths)
    /\ scratch' = safe_delete_files(scratch, image_paths)
    /\ \E zero_batch_time \in (IF image_paths = << >> THEN BOOLEAN ELSE {FALSE}) :
         IF zero_batch_time
         THEN /\ Return("false", 219)
              /\ UNCHANGED << events, futures, next_submit, next_process >>
         ELSE /\ events' = Publish(events, Event("progress", pages_processed'))
              /\ futures' = IF Refill(next_submit, Len(ranges))
                            THEN Submitted(futures, next_submit, next_submit + 1)
                            ELSE futures
              /\ next_submit' = IF Refill(next_submit, Len(ranges))
                                THEN next_submit + 1 ELSE next_submit
              /\ next_process' = AdvanceProcess(next_process)
              /\ pc' = "loop"
              /\ UNCHANGED << result, exitLine >>
    /\ UNCHANGED << executor, compression_workers, probe, output, extract_kind,
                    temp_dir, temp_output, out_file >>
    /\ UNCHANGED << stopVars, planVars, batchVars >>

\* Line 211, after the while loop and the extraction pool's with block.
LoopExit ==
    /\ \/ pc = "loop" /\ next_process >= Len(ranges)
       \/ pc = "break"
    /\ LiveFutures = {}
    /\ \E save_fails \in BOOLEAN :
         IF save_fails THEN Return("false", 219)
         ELSE pc' = "final" /\ UNCHANGED << result, exitLine >>
    /\ UNCHANGED << executor, compression_workers, probe, output, pages_processed, events >>
    /\ UNCHANGED << stopVars, planVars, windowVars, batchVars, diskVars >>

\* The final move with no poll of the stop predicate before it.
Final_NoPoll ==
    /\ pc = "final"
    /\ \E move_fails \in BOOLEAN :
         IF move_fails
         THEN /\ Return("false", 219)
              /\ out_file' \in BOOLEAN
              /\ UNCHANGED temp_output
         ELSE /\ out_file' = TRUE
              /\ temp_output' = FALSE
              /\ pc' = "post"
              /\ UNCHANGED << result, exitLine >>
    /\ UNCHANGED << executor, compression_workers, probe, output, pages_processed,
                    events, temp_dir, scratch >>
    /\ UNCHANGED << stopVars, planVars, windowVars, batchVars >>

\* The stop predicate polled after the move instead of before it.
Final_PollsAfterMove ==
    /\ pc = "final"
    /\ \E move_fails \in BOOLEAN :
         IF move_fails
         THEN /\ Return("false", 219)
              /\ out_file' \in BOOLEAN
              /\ UNCHANGED temp_output
         ELSE /\ out_file' = TRUE
              /\ temp_output' = FALSE
              /\ IF stop_checker THEN Return("false", 214)
                 ELSE pc' = "post" /\ UNCHANGED << result, exitLine >>
    /\ UNCHANGED << executor, compression_workers, probe, output, pages_processed,
                    events, temp_dir, scratch >>
    /\ UNCHANGED << stopVars, planVars, windowVars, batchVars >>

\* Lines 212-216.  shutil.move renames, or across file systems copies and
\* then unlinks: a copy that fails part-way leaves what it wrote at the
\* destination.
Final ==
    /\ pc = "final"
    /\ IF stop_checker
       THEN Return("false", 214) /\ UNCHANGED << temp_output, out_file >>
       ELSE \E move_fails \in BOOLEAN :
              IF move_fails
              THEN /\ Return("false", 219)
                   /\ out_file' \in BOOLEAN
                   /\ UNCHANGED temp_output
              ELSE /\ out_file' = TRUE
                   /\ temp_output' = FALSE
                   /\ pc' = "post"
                   /\ UNCHANGED << result, exitLine >>
    /\ UNCHANGED << executor, compression_workers, probe, output, pages_processed,
                    events, temp_dir, scratch >>
    /\ UNCHANGED << stopVars, planVars, windowVars, batchVars >>

\* compress_pdf publishing file_done before _print_final_stats is called.
Post_AnnouncesFirst ==
    /\ pc = "post"
    /\ \E stats_raise \in BOOLEAN :
         IF stats_raise
         THEN /\ events' = Publish(Publish(events, Event("file_done", pages_processed)),
                                   Event("error", pages_processed))
              /\ Return("false", 126)
         ELSE /\ events' = Publish(events, Event("file_done", pages_processed))
              /\ Return("true", 118)
    /\ UNCHANGED << executor, compression_workers, probe, output, pages_processed >>
    /\ UNCHANGED << stopVars, planVars, windowVars, batchVars, diskVars >>

\* Lines 109-126: back in compress_pdf with success = True.
Post ==
    /\ pc = "post"
    /\ \E stats_raise \in BOOLEAN :
         IF stats_raise
         THEN /\ events' = Publish(events, Event("error", pages_processed))
              /\ Return("false", 126)
         ELSE /\ events' = Publish(events, Event("file_done", pages_processed))
              /\ Return("true", 118)
    /\ UNCHANGED << executor, compression_workers, probe, output, pages_processed >>
    /\ UNCHANGED << stopVars, planVars, windowVars, batchVars, diskVars >>

\* ------------------------------------------------------------ request_stop
\* The orchestrator is in the while loop of lines 175-210 with a range still
\* to be extracted, compressed, written or accounted for.
Piping ==
    \/ pc \in {"extract", "batch", "compress", "write", "batch_done"}
    \/ pc = "loop" /\ next_process < Len(ranges)

\* Line 57, run by another thread; limit bounds the calls made.
RequestStopUpTo(limit) ==
    /\ rpc = "idle"
    /\ pc \notin {"unwind", "returned"}
    /\ stops < limit
    /\ stops' = stops + 1
    /\ stop_requested' = TRUE
    /\ stopped_at' = IF stop_requested THEN stopped_at
                     ELSE IF Piping THEN "piping" ELSE "other"
    /\ rpc' = "cancel"
    /\ UNCHANGED << pc, result, exitLine, executor, compression_workers, probe, output,
                    pages_processed, events, stop_checker, ex >>
    /\ UNCHANGED << planVars, windowVars, batchVars, diskVars >>

RequestStop == RequestStopUpTo(MaxStops)

\* _cancel_active_workers without its finally block: the handle stays.
RequestCancel_KeepsHandle ==
    /\ rpc = "cancel"
    /\ rpc' = "idle"
    /\ IF executor = 0
       THEN UNCHANGED << tasks, pool >>
       ELSE /\ tasks' = CancelTasks(tasks)
            /\ pool' = "shutdown"
    /\ UNCHANGED << pc, result, exitLine, executor, compression_workers, probe,
                    output, pages_processed, events, stop_requested, stop_checker,
                    stops, stopped_at, ex, image_paths, failed_batch, yielded, results,
                    reordered, write_pos, invalid_used >>
    /\ UNCHANGED << planVars, windowVars, diskVars >>

\* _cancel_active_workers with the flag reset in its finally block.
RequestCancel_ClearsFlag ==
    /\ rpc = "cancel"
    /\ rpc' = "idle"
    /\ stop_requested' = FALSE
    /\ IF executor = 0
       THEN UNCHANGED << executor, tasks, pool >>
       ELSE /\ tasks' = CancelTasks(tasks)
            /\ pool' = "shutdown"
            /\ executor' = 0
    /\ UNCHANGED << pc, result, exitLine, compression_workers, probe, output,
                    pages_processed, events, stop_checker, stops,
                    stopped_at, ex, image_paths, failed_batch, yielded, results,
                    reordered, write_pos, invalid_used >>
    /\ UNCHANGED << planVars, windowVars, diskVars >>

\* Lines 59-62 and 64-91, run by that thread.
RequestCancel ==
    /\ rpc = "cancel"
    /\ rpc' = "idle"
    /\ IF executor = 0
       THEN UNCHANGED << executor, tasks, pool >>
       ELSE /\ tasks' = CancelTasks(tasks)
            /\ pool' = "shutdown"
            /\ executor' = 0
    /\ UNCHANGED << pc, result, exitLine, compression_workers, probe, output,
                    pages_processed, events, stop_requested, stop_checker, stops,
                    stopped_at, ex, image_paths, failed_batch, yielded, results,
                    reordered, write_pos, invalid_used >>
    /\ UNCHANGED << planVars, windowVars, diskVars >>

\* The caller's stop predicate starts or stops answering true.
StopCheckerChange ==
    /\ pc \notin {"unwind", "returned"}
    /\ stop_checker' = ~stop_checker
    /\ UNCHANGED << pc, result, exitLine, executor, compression_workers, probe, output,
                    pages_processed, events, stop_requested, rpc, stops, stopped_at, ex >>
    /\ UNCHANGED << planVars, windowVars, batchVars, diskVars >>

\* Available RAM, in MB, as get_available_gb may report it.
RamChoices == {0, 60}

Next ==
    \/ Call
    \/ PreCheck
    \/ Analyze(0 .. MaxPages, RamChoices)
    \/ Unwind
    \/ \E k \in 0 .. MaxPages : ExtractStart(k) \/ ExtractFinish(k)
    \/ LoopTop
    \/ ExtractPoll
    \/ BatchStart
    \/ \E i \in 1 .. MaxPages : TaskFails(i) \/ Yield(i)
    \/ WritePage
    \/ BatchDone
    \/ LoopExit
    \/ Final
    \/ Post
    \/ RequestStop
    \/ RequestCancel
    \/ StopCheckerChange

Spec == Init /\ [][Next]_vars

\* The analysis steps alone, over many page counts and RAM readings.
PlanRam == { m * ESTIMATED_MB_PER_PAGE : m \in 0 .. MaxPlanRamPages }

NextPlan ==
    \/ Call
    \/ PreCheck
    \/ Analyze(0 .. MaxPlanPages, PlanRam)
    \/ Unwind

SpecPlan == Init /\ [][NextPlan]_vars

\* ------------------------------------------- one compressor, many calls
\* request_stop may be called more than once, and once compress_pdf has
\* returned its caller calls it again on the same object (the GUI worker and
\* the CLI batch loop do so for each file).  The
\* object keeps _stop_requested, _executor, compression_workers and stats;
\* the frame of the previous call is gone, and what the previous call wrote
\* and published belongs to the previous file.
Recall ==
    /\ pc = "returned"
    /\ pc' = "init"
    /\ result' = "none"
    /\ exitLine' = 0
    /\ stopped_at' = "never"
    /\ total_pages' = 0
    /\ batch_size' = 0
    /\ ranges' = << >>
    /\ prefetch_batches' = 0
    /\ extract_kind' = << >>
    /\ tasks' = << >>
    /\ failed_batch' = 0
    /\ pool' = "none"
    /\ yielded' = {}
    /\ results' = << >>
    /\ reordered' = FALSE
    /\ write_pos' = 0
    /\ invalid_used' = 0
    /\ output' = << >>
    /\ events' = << >>
    /\ out_file' = FALSE
    /\ UNCHANGED << stop_requested, stop_checker, rpc, stops, ex, executor,
                    compression_workers, probe, pages_processed, futures,
                    next_submit, next_process, image_paths, temp_dir,
                    temp_output, scratch >>

NextReuse ==
    \/ Call
    \/ PreCheck
    \/ Analyze(0 .. MaxReusePages, RamChoices)
    \/ Unwind
    \/ \E k \in 0 .. MaxReusePages : ExtractStart(k) \/ ExtractFinish(k)
    \/ LoopTop
    \/ ExtractPoll
    \/ BatchStart
    \/ \E i \in 1 .. MaxReusePages : TaskFails(i) \/ Yield(i)
    \/ WritePage
    \/ BatchDone
    \/ LoopExit
    \/ Final
    \/ Post
    \/ RequestStopUpTo(MaxRepeatStops)
    \/ RequestCancel
    \/ StopCheckerChange
    \/ Recall

SpecReuse == Init /\ [][NextReuse]_vars

\* ------------------------------------------------ a deep prefetch window
\* Runs with enough workers for a prefetch depth of 2 or 3 and enough pages
\* for 3 or more ranges.  To keep the batches small the rasterizer here never
\* returns more than MaxWindowBatch pages for a range (a short or empty
\* result); the window of lines 165-210 does not look at a batch's content.
InitWindow == InitWith(2 * 2 .. MaxWindowWorkers)

WindowPages == 3 * HARD_MIN_BATCH .. MaxWindowPages

WindowExtractFinish(k) ==
    /\ ExtractFinish(k)
    /\ Len(futures'[k].paths) <= MaxWindowBatch

NextWindow ==
    \/ Call
    \/ PreCheck
    \/ Analyze(WindowPages, RamChoices)
    \/ Unwind
    \/ \E k \in 0 .. MaxWindowPages : ExtractStart(k) \/ WindowExtractFinish(k)
    \/ LoopTop
    \/ ExtractPoll
    \/ BatchStart
    \/ \E i \in 1 .. MaxWindowBatch : TaskFails(i) \/ Yield(i)
    \/ WritePage
    \/ BatchDone
    \/ LoopExit
    \/ Final
    \/ Post
    \/ RequestStop
    \/ RequestCancel
    \/ StopCheckerChange

SpecWindow == InitWindow /\ [][NextWindow]_vars

\* ------------------------------------------------ the memory budget alone
\* Available RAM readings for the budget functions, in MB: every multiple of
\* half a page's estimate, so that int() has something to cut off.
BudgetRam == { h * (ESTIMATED_MB_PER_PAGE \div 2) : h \in 0 .. MaxBudgetHalfPages }

\* SystemOptimizer.get_optimal_batch_size applied to one input.
OptimizerBudget ==
    /\ probe.fn = "none"
    /\ \E total \in 1 .. MaxBudgetPages, available_mb \in BudgetRam, ssd \in BOOLEAN :
         probe' = [fn |-> "get_optimal_batch_size", total_pages |-> total,
                   available_mb |-> available_mb, has_ssd |-> ssd,
                   out |-> get_optimal_batch_size(total, available_mb, ssd)]
    /\ UNCHANGED << pc, result, exitLine, executor, compression_workers, output,
                    pages_processed, events >>
    /\ UNCHANGED << stopVars, planVars, windowVars, batchVars, diskVars >>

\* MemoryMonitor.calculate_optimal_batch_size applied to one input.
MonitorBudget ==
    /\ probe.fn = "none"
    /\ \E total \in 1 .. MaxBudgetPages, available_mb \in BudgetRam :
         probe' = [fn |-> "calculate_optimal_batch_size", total_pages |-> total,
                   available_mb |-> available_mb, has_ssd |-> FALSE,
                   out |-> calculate_optimal_batch_size(total, available_mb)]
    /\ UNCHANGED << pc, result, exitLine, executor, compression_workers, output,
                    pages_processed, events >>
    /\ UNCHANGED << stopVars, planVars, windowVars, batchVars, diskVars >>

NextBudget == OptimizerBudget \/ MonitorBudget

SpecBudget == Init /\ [][NextBudget]_vars

\* ------------------------------------------------------ the statistics alone
\* A float quotient n / d is kept exactly, as the pair << n, d >> with d > 0;
\* elapsed is time.time() - start_time in clock ticks.
Zero == << 0, 1 >>

\* CompressionStats.pages_per_second, given what elapsed_time() returns.
pages_per_second(processed, elapsed) ==
    IF elapsed > 0 THEN << processed, elapsed >> ELSE Zero

\* eta_seconds multiplying by the rate where it should divide.
eta_seconds_Times(processed, total, elapsed) ==
    IF processed > 0 /\ total > processed
    THEN LET rate == pages_per_second(processed, elapsed)
             remaining_pages == total - processed
         IN  IF rate[1] > 0 THEN << remaining_pages * rate[1], rate[2] >> ELSE Zero
    ELSE Zero

\* CompressionStats.eta_seconds: remaining_pages / rate is
\* remaining_pages * rate[2] / rate[1].
eta_seconds(processed, total, elapsed) ==
    IF processed > 0 /\ total > processed
    THEN LET rate == pages_per_second(processed, elapsed)
             remaining_pages == total - processed
         IN  IF rate[1] > 0 THEN << remaining_pages * rate[2], rate[1] >> ELSE Zero
    ELSE Zero

\* The two functions applied to one state of the statistics at one clock
\* reading.
StatsProbe ==
    /\ probe.fn = "none"
    /\ \E total \in 0 .. MaxStatPages, elapsed \in 0 .. MaxElapsed :
         \E processed \in 0 .. total :
            probe' = [fn |-> "stats", pages_processed |-> processed,
                      pages_total |-> total, elapsed |-> elapsed,
                      pages_per_second |-> pages_per_second(processed, elapsed),
                      eta_seconds |-> eta_seconds(processed, total, elapsed)]
    /\ UNCHANGED << pc, result, exitLine, executor, compression_workers, output,
                    pages_processed, events >>
    /\ UNCHANGED << stopVars, planVars, windowVars, batchVars, diskVars >>

NextStats == StatsProbe

SpecStats == Init /\ [][NextStats]_vars

\* --------------------------------- request_stop against the batch's pool
\* _cancel_active_workers in the steps at which it touches what the
\* orchestrator shares with it.  Lines 65-67: the handle is read.
CancelRead ==
    /\ rpc = "cancel"
    /\ ex' = executor
    /\ rpc' = IF executor = 0 THEN "idle" ELSE "shutdown"
    /\ UNCHANGED << pc, result, exitLine, executor, compression_workers, probe,
                    output, pages_processed, events, stop_requested, stop_checker,
                    stops, stopped_at >>
    /\ UNCHANGED << planVars, windowVars, batchVars, diskVars >>

\* Lines 68-89: the pool ex names is shut down and its processes terminated;
\* a pool the orchestrator has already shut down has nothing left to cancel.
CancelShutdown ==
    /\ rpc = "shutdown"
    /\ rpc' = "clear"
    /\ IF pc = "compress" /\ pool = "active" /\ ex = next_process + 1
       THEN /\ tasks' = CancelTasks(tasks)
            /\ pool' = "shutdown"
       ELSE UNCHANGED << tasks, pool >>
    /\ UNCHANGED << pc, result, exitLine, executor, compression_workers, probe,
                    output, pages_processed, events, stop_requested, stop_checker,
                    stops, stopped_at, ex, image_paths, failed_batch, yielded,
                    results, reordered, write_pos, invalid_used >>
    /\ UNCHANGED << planVars, windowVars, diskVars >>

\* Lines 90-91: finally: self._executor = None, and the call returns.
CancelClear ==
    /\ rpc = "clear"
    /\ rpc' = "idle"
    /\ executor' = 0
    /\ ex' = 0
    /\ UNCHANGED << pc, result, exitLine, compression_workers, probe, output,
                    pages_processed, events, stop_requested, stop_checker, stops,
                    stopped_at >>
    /\ UNCHANGED << planVars, windowVars, batchVars, diskVars >>

\* Runs of two ranges with batches of at most MaxWindowBatch pages, request_stop
\* called up to MaxRepeatStops times and interleaved step by step.
RacePages == HARD_MIN_BATCH + 1 .. MaxRacePages

NextRace ==
    \/ Call
    \/ PreCheck
    \/ Analyze(RacePages, RamChoices)
    \/ Unwind
    \/ \E k \in 0 .. MaxWindowBatch : ExtractStart(k) \/ WindowExtractFinish(k)
    \/ LoopTop
    \/ ExtractPoll
    \/ BatchStart
    \/ \E i \in 1 .. MaxWindowBatch : TaskFails(i) \/ Yield(i)
    \/ WritePage
    \/ BatchDone
    \/ LoopExit
    \/ Final
    \/ Post
    \/ RequestStopUpTo(MaxRepeatStops)
    \/ CancelRead
    \/ CancelShutdown
    \/ CancelClear
    \/ StopCheckerChange

SpecRace == Init /\ [][NextRace]_vars

\* ------------------------------------------------ waiting for results
\* as_completed hands over a future that has already finished (its worker
\* raised, or the pool was shut down under it); no task has to complete.
YieldDone(i) == Yield(i) /\ tasks[i] # "pending"

\* A step the thread running compress_pdf takes whenever it can, without any
\* extraction or compression task making progress.
OrchestratorStep ==
    \/ Call
    \/ PreCheck
    \/ Analyze(0 .. MaxWaitPages, RamChoices)
    \/ Unwind
    \/ LoopTop
    \/ ExtractPoll
    \/ BatchStart
    \/ \E i \in 1 .. MaxWaitPages : YieldDone(i)
    \/ WritePage
    \/ BatchDone
    \/ LoopExit
    \/ Final
    \/ Post

NextWaits ==
    \/ Call
    \/ PreCheck
    \/ Analyze(0 .. MaxWaitPages, RamChoices)
    \/ Unwind
    \/ \E k \in 0 .. MaxWaitPages : ExtractStart(k) \/ ExtractFinish(k)
    \/ LoopTop
    \/ ExtractPoll
    \/ BatchStart
    \/ \E i \in 1 .. MaxWaitPages : TaskFails(i) \/ Yield(i)
    \/ WritePage
    \/ BatchDone
    \/ LoopExit
    \/ Final
    \/ Post
    \/ RequestStop
    \/ RequestCancel
    \/ StopCheckerChange

\* The thread running compress_pdf and the thread inside request_stop keep
\* running; nothing is assumed about when, or whether, a rasterizer call or a
\* worker process finishes.
SpecWaits ==
    Init /\ [][NextWaits]_vars /\ WF_vars(OrchestratorStep) /\ WF_vars(RequestCancel)

\* A rasterizer call or a worker process makes progress: an extraction is
\* taken up or finishes, a compression task raises or returns.
TaskStep ==
    \/ \E k \in 0 .. MaxWaitPages : ExtractStart(k) \/ ExtractFinish(k)
    \/ \E i \in 1 .. MaxWaitPages : TaskFails(i) \/ (Yield(i) /\ tasks[i] = "pending")

\* As SpecWaits, and every submitted extraction and compression task
\* eventually completes or fails.
SpecLive ==
    /\ Init /\ [][NextWaits]_vars
    /\ WF_vars(OrchestratorStep) /\ WF_vars(RequestCancel) /\ WF_vars(TaskStep)

\* ------------------------------------------------ the page encoder alone
\* ImageProcessor.compress_image on a page whose bw of MaxSamples sampled
\* pixels are near-black or near-white and whose gray of MaxSamples sampled
\* pixels have their channels within the tolerance of one another.
CompressionModes == {"auto", "bw", "grayscale", "color"}

\* _is_pure_bw: bw_ratio > BW_DETECTION_THRESHOLD
is_pure_bw(bw, total) ==
    IF total > 0 THEN bw * 100 > BW_DETECTION_THRESHOLD * total ELSE FALSE

\* _is_mostly_grayscale: an image of mode L is, others by grayscale_ratio.
is_mostly_grayscale(image_mode, gray, total) ==
    IF image_mode = "L" THEN TRUE
    ELSE IF total > 0 THEN gray * 100 > GRAYSCALE_THRESHOLD * total ELSE FALSE

\* The branch taken with the grayscale test asked before the pure-BW test.
compress_image_GrayFirst(mode, pure_bw, mostly_gray) ==
    IF mode = "grayscale" \/ (mode = "auto" /\ mostly_gray) THEN "grayscale"
    ELSE IF mode = "bw" \/ (mode = "auto" /\ pure_bw) THEN "bw"
    ELSE "color"

\* The branch of compress_image taken (lines 36, 47, 52).
compress_image(mode, pure_bw, mostly_gray) ==
    IF mode = "bw" \/ (mode = "auto" /\ pure_bw) THEN "bw"
    ELSE IF mode = "grayscale" \/ (mode = "auto" /\ mostly_gray) THEN "grayscale"
    ELSE "color"

\* Python's `a or (b and c())` calls c only when a is false and b is true:
\* whether line 36 calls _is_pure_bw and whether line 47 is reached and calls
\* _is_mostly_grayscale.
CallsPureBw(mode) == mode # "bw" /\ mode = "auto"

CallsMostlyGrayscale(mode, pure_bw) ==
    /\ ~(mode = "bw" \/ (mode = "auto" /\ pure_bw))
    /\ mode # "grayscale" /\ mode = "auto"

\* What each branch saves: format and image mode.
Encoded(branch) ==
    CASE branch = "bw" -> << "PNG", "1" >>
      [] branch = "grayscale" -> << "JPEG", "L" >>
      [] OTHER -> << "JPEG", "RGB" >>

EncodeProbe ==
    /\ probe.fn = "none"
    /\ \E mode \in CompressionModes, image_mode \in {"L", "RGB"},
          bw \in 0 .. MaxSamples, gray \in 0 .. MaxSamples :
         LET pure_bw == is_pure_bw(bw, MaxSamples)
             mostly_gray == is_mostly_grayscale(image_mode, gray, MaxSamples)
             branch == compress_image(mode, pure_bw, mostly_gray)
         IN  probe' = [fn |-> "compress_image", compression_mode |-> mode,
                       image_mode |-> image_mode, bw |-> bw, gray |-> gray,
                       pure_bw |-> pure_bw, mostly_gray |-> mostly_gray,
                       calls_pure_bw |-> CallsPureBw(mode),
                       calls_mostly_grayscale |-> CallsMostlyGrayscale(mode, pure_bw),
                       encoding |-> branch, saved |-> Encoded(branch)]
    /\ UNCHANGED << pc, result, exitLine, executor, compression_workers, output,
                    pages_processed, events >>
    /\ UNCHANGED << stopVars, planVars, windowVars, batchVars, diskVars >>

NextEncode == EncodeProbe

SpecEncode == Init /\ [][NextEncode]_vars

\* ------------------------------------------------------------ exit paths
\* The return statements taken because a stop was observed.
CancelLines == {107, 178, 190, 214, 282, 292}

\* The return statements taken because something failed.
FailedLines == {126, 140, 219, 295, 329}

\* ------------------------------------------------------------------ claims
\* C1: the pages appended to the output are in strictly increasing input page
\* index, whatever the order in which the compression tasks of a batch
\* complete.
C1_OutputInPageOrder ==
    \A i, j \in 1 .. Len(output) : i < j => output[i] < output[j]

C1_Witness ==
    /\ pc = "returned"
    /\ result = "true"
    /\ reordered
    /\ Len(ranges) >= 2
    /\ Len(output) = total_pages

\* C2: the ranges are 1-indexed inclusive, contiguous and non-overlapping, none
\* is empty, and every page of 1 .. total_pages is in exactly one of them.
C2_RangesPartitionPages ==
    pc = "loop" =>
        LET n == Len(ranges) IN
        /\ n >= 1
        /\ \A k \in 1 .. n :
              1 <= ranges[k][1] /\ ranges[k][1] <= ranges[k][2] /\ ranges[k][2] <= total_pages
        /\ \A k \in 1 .. n - 1 : ranges[k + 1][1] = ranges[k][2] + 1
        /\ \A p \in 1 .. total_pages :
              Cardinality({ k \in 1 .. n : ranges[k][1] <= p /\ p <= ranges[k][2] }) = 1

C2_Witness ==
    /\ pc = "loop"
    /\ Len(ranges) >= 3
    /\ batch_size > HARD_MIN_BATCH
    /\ total_pages % batch_size # 0

\* Every extraction of the run came back complete and no result was skipped
\* by the writer.
CleanRun ==
    /\ \A k \in DOMAIN extract_kind : extract_kind[k] \in {"none", "full"}
    /\ invalid_used = 0

\* C3: a request_stop() made while compress is in Piping makes compress return
\* false with no file at the output path (stated for runs in which every
\* extraction is complete and every result valid).
C3_StopInPipingCancels ==
    (pc = "returned" /\ stopped_at = "piping" /\ CleanRun)
        => (result = "false" /\ ~out_file)

\* C4: whenever the orchestrator polls the stop predicate and it answers true,
\* compress takes the cancelled path: it returns false and the temp output is
\* never moved to the output path.
AtPollPoint ==
    \/ pc \in {"precheck", "extract", "compress", "final"}
    \/ pc = "loop" /\ next_process < Len(ranges)

OrchestratorMoves == pc' # pc \/ results' # results

C4_StopPredicateCancels ==
    /\ [][(stop_checker /\ AtPollPoint /\ OrchestratorMoves)
            => (pc' = "unwind" /\ result' = "false" /\ exitLine' \in CancelLines
                /\ ~out_file')]_vars
    /\ [](exitLine \in CancelLines => (result = "false" /\ ~out_file))

C4_Witness ==
    /\ pc = "returned"
    /\ exitLine = 214
    /\ stop_checker
    /\ result = "false"
    /\ ~out_file

\* C5: a run that ends Done has appended exactly one output page for each
\* input page 1 .. total_pages.
C5_DoneHasEveryPage ==
    (pc = "returned" /\ result = "true") => output = PageSeq(1, total_pages)

\* C6: a run in which the extraction of some range failed or came back empty
\* returns false and leaves no file at the output path.
C6_EmptyExtractionFails ==
    (pc = "returned" /\ \E k \in DOMAIN extract_kind : extract_kind[k] = "empty")
        => (result = "false" /\ ~out_file)

\* C7: once a compression task of a batch has failed, no page of that batch is
\* written, no later batch is compressed or written, compress returns false and
\* no file is placed at the output path.
C7_TaskFailureAbortsRun ==
    failed_batch # 0 =>
        /\ pc \in {"compress", "unwind", "returned"}
        /\ pc = "compress" => next_process + 1 = failed_batch
        /\ pc = "returned" => result = "false"
        /\ result # "true"
        /\ ~out_file
        /\ \A i \in 1 .. Len(output) : output[i] < ranges[failed_batch][1]

C7_Witness ==
    /\ pc = "returned"
    /\ exitLine = 295
    /\ failed_batch = 2
    /\ result = "false"
    /\ Len(output) = ranges[1][2]

\* C8: compress never propagates an exception to its caller.
C8_NeverRaises == result # "raised"

\* C9: every run that ends Failed has published an error event before
\* compress returns false.
C9_FailedPublishesError ==
    (pc = "returned" /\ result = "false" /\ exitLine \in FailedLines)
        => \E n \in 1 .. Len(events) : events[n].event = "error"

\* C10: when compress has returned, the per-run temp directory, its temp
\* output and every scratch raster of the run are gone.
C10_NoScratchSurvives ==
    pc = "returned" => (~temp_dir /\ ~temp_output /\ scratch = {})

C10_Witness ==
    /\ pc = "returned"
    /\ exitLine \in {190, 295}
    /\ \E k \in DOMAIN extract_kind : extract_kind[k] = "full"
    /\ scratch = {}
    /\ ~temp_dir

\* C11: a file is at the output path only through the final move, made after
\* every range was consumed and the canvas saved; compress returns true if and
\* only if the move happened, and a run that returns false leaves nothing at
\* the output path.
C11_OutputOnlyByCompletedMove ==
    /\ out_file => (next_process = Len(ranges) \/ pc = "returned")
    /\ out_file => pc \in {"post", "unwind", "returned"}
    /\ pc = "returned" => ((result = "true") <=> out_file)

\* A budget function has been applied.
BudgetProbed == probe.fn \in {"get_optimal_batch_size", "calculate_optimal_batch_size"}

\* C12 (as stated): the batch size computed by the memory budget is within
\* [MIN_BATCH, MAX_BATCH] and does not exceed total_pages.
C12_BudgetWithinBounds ==
    BudgetProbed =>
        /\ MIN_BATCH_SIZE <= probe.out
        /\ probe.out <= MAX_BATCH_SIZE
        /\ probe.out <= probe.total_pages

\* C12 (amended): the batch size computed by the memory budget is at least 1,
\* at most MAX_BATCH and at most total_pages, and it is at least MIN_BATCH
\* whenever total_pages is: its lower bound is min(MIN_BATCH, total_pages).
C12_BudgetWithinBoundsOfDocument ==
    BudgetProbed =>
        /\ 1 <= probe.out
        /\ Min(MIN_BATCH_SIZE, probe.total_pages) <= probe.out
        /\ probe.out <= MAX_BATCH_SIZE
        /\ probe.out <= probe.total_pages

C12_Witness ==
    /\ probe.fn = "calculate_optimal_batch_size"
    /\ probe.total_pages < MIN_BATCH_SIZE
    /\ probe.available_mb > MAX_BATCH_SIZE * ESTIMATED_MB_PER_PAGE
    /\ probe.out = probe.total_pages

\* The optimal batch size as the specification writes it:
\* clamp(MIN_BATCH, MAX_BATCH, min(availableGB * 1024 / MB_per_page, totalPages)).
SpecOptimalBatchSize(total, available_mb) ==
    Max(MIN_BATCH_SIZE,
        Min(MAX_BATCH_SIZE, Min(available_mb \div ESTIMATED_MB_PER_PAGE, total)))

\* C19: the memory budget's optimal batch size equals
\* clamp(MIN_BATCH, MAX_BATCH, min(floor(availableGB*1024/MB_per_page), total_pages)):
\* the minimum with total_pages is taken before clamping and no other factor
\* enters the result.
C19_BudgetIsClampOfMin ==
    BudgetProbed => probe.out = SpecOptimalBatchSize(probe.total_pages, probe.available_mb)

\* C13: in every reachable state of a run pages_processed <= pages_total, in
\* the statistics and in every progress event published.
C13_ProcessedWithinTotal ==
    /\ pages_processed <= total_pages
    /\ \A n \in 1 .. Len(events) :
          /\ events[n].pages_processed <= events[n].pages_total
          /\ events[n].pages_total = total_pages

C13_Witness ==
    /\ pc = "returned"
    /\ result = "true"
    /\ Len(ranges) >= 2
    /\ pages_processed = total_pages
    /\ \E n \in 1 .. Len(events) :
          events[n].event = "progress" /\ events[n].pages_processed = total_pages

\* C14: within a run the stop flag is monotonic: once request_stop has set
\* it, no step of compress or of request_stop clears it.
C14_StopFlagMonotonic == [][stop_requested => stop_requested']_vars

C14_Witness ==
    /\ pc = "returned"
    /\ stops >= 1
    /\ rpc = "idle"
    /\ stop_requested
    /\ exitLine \in {190, 282}

\* C15: every compress call starts with fresh pipeline state: when the call
\* enters its try block pages_processed is 0, there is no executor and the stop
\* flag is unset unless request_stop was called for this call; and a call is
\* cancelled only if its stop predicate answered true or request_stop was
\* called for it.
C15_CallStartsFresh ==
    /\ pc = "precheck" =>
          /\ pages_processed = 0
          /\ executor = 0
          /\ stop_requested => stopped_at # "never"
    /\ (pc = "returned" /\ exitLine \in CancelLines) =>
          (stop_checker \/ stopped_at # "never")

\* A request_stop call completes / a call after the first completes.
CallCompletes == rpc = "cancel" /\ rpc' = "idle"

\* What a request_stop call never touches: everything but the flag, the call's
\* own bookkeeping and the compression pool.
beyondStop == << pc, result, exitLine, stop_checker, compression_workers,
                 planVars, windowVars, image_paths, failed_batch, yielded, results,
                 reordered, write_pos, invalid_used, output, pages_processed,
                 events, diskVars, probe >>

\* C16: request_stop is idempotent.  After every call, the first or a later
\* one, the flag is set and the compressor holds no executor handle; a later
\* call leaves the flag as it found it, changes nothing at all when it finds
\* no executor, and otherwise only shuts down a pool whose batch is already
\* bound to be abandoned: with the flag set the compression loop is left only
\* by returning false, whether or not a call has shut its pool down.
C16_RequestStopIdempotent ==
    /\ [][CallCompletes => (stop_requested' /\ executor' = 0)]_vars
    /\ [][(stops >= 1 /\ stops' # stops) => (stop_requested /\ stop_requested')]_vars
    /\ [][(stops' # stops \/ CallCompletes) => UNCHANGED beyondStop]_vars
    /\ [][(CallCompletes /\ executor = 0) => UNCHANGED << tasks, pool, executor >>]_vars
    /\ [](executor # 0 => pc = "compress")
    /\ [][(stop_requested /\ pc = "compress" /\ pc' # pc)
            => (pc' = "unwind" /\ result' = "false")]_vars

C16_Witness ==
    /\ stops >= 2
    /\ rpc = "idle"
    /\ stop_requested
    /\ executor = 0
    /\ pc = "returned"
    /\ pool = "shutdown"
    /\ exitLine = 282
    /\ result = "false"

\* C17: when the page count is zero or cannot be determined, the run goes
\* from Analyzing directly to Failed: compress returns false at once, having
\* submitted no extraction, created no temp output and started no compression
\* pool, and nothing is put at the output path.
C17_NoPagesFailsBeforeAnyWork ==
    /\ [][(pc = "analyze" /\ pc' # pc /\ total_pages' = 0)
            => /\ pc' = "unwind"
               /\ result' = "false"
               /\ exitLine' = 140
               /\ UNCHANGED << futures, ranges, temp_output, executor, pool, tasks,
                               output, out_file >>]_vars
    /\ [](exitLine = 140 =>
            /\ result = "false"
            /\ total_pages = 0
            /\ ranges = << >> /\ futures = << >> /\ extract_kind = << >>
            /\ ~temp_output /\ ~out_file
            /\ executor = 0 /\ pool = "none"
            /\ output = << >>)

C17_Witness ==
    /\ pc = "returned"
    /\ exitLine = 140
    /\ result = "false"
    /\ total_pages = 0
    /\ next_submit = 0
    /\ ~out_file

\* C18: for 0 < pages_processed <= pages_total and elapsed > 0,
\* pages_per_second is pages_processed / elapsed, eta is
\* (pages_total - pages_processed) / pages_per_second, both are finite and
\* non-negative, and eta is 0 when pages_processed = pages_total.
C18_RateAndEta ==
    (/\ probe.fn = "stats"
     /\ 0 < probe.pages_processed
     /\ probe.pages_processed <= probe.pages_total
     /\ probe.elapsed > 0)
    => LET pps == probe.pages_per_second
           eta == probe.eta_seconds
           remaining == probe.pages_total - probe.pages_processed
       IN  /\ pps[2] > 0 /\ pps[1] >= 0
           /\ pps[1] * probe.elapsed = probe.pages_processed * pps[2]
           /\ eta[2] > 0 /\ eta[1] >= 0
           /\ eta[1] * pps[1] = remaining * pps[2] * eta[2]
           /\ remaining = 0 => eta[1] = 0

C18_Witness ==
    /\ probe.fn = "stats"
    /\ 0 < probe.pages_processed
    /\ probe.pages_processed < probe.pages_total
    /\ probe.elapsed > 1
    /\ probe.pages_processed # probe.elapsed
    /\ probe.eta_seconds[1] > 0

\* The ranges the orchestrator has taken out of the window so far.
Consumed ==
    next_process + (IF pc \in {"batch", "compress", "write", "batch_done"} THEN 1 ELSE 0)

\* C20: in Piping the ranges submitted and not yet consumed are at most
\* prefetch_depth = min(3, max(1, compression_workers div 2)), they are the
\* ranges next after the consumed ones, and a new range is submitted only once
\* the oldest pending range has been consumed.
C20_WindowBounded ==
    /\ [](Piping =>
            /\ prefetch_batches = Min(3, Max(1, compression_workers \div 2))
            /\ Cardinality(DOMAIN futures) <= prefetch_batches
            /\ DOMAIN futures = Consumed .. next_submit - 1
            /\ next_submit <= Len(ranges))
    /\ [][(Piping /\ next_submit' > next_submit)
            => /\ next_submit' = next_submit + 1
               /\ next_process \notin DOMAIN futures
               /\ next_process' = next_process + 1
               /\ Cardinality(DOMAIN futures') <= prefetch_batches]_vars

C20_Witness ==
    /\ Piping
    /\ prefetch_batches = 3
    /\ Len(ranges) = 4
    /\ next_process = 1
    /\ DOMAIN futures = {1, 2, 3}

\* The batch _process_batch_modular is working on (0: none).
CurrentBatch ==
    IF pc \in {"batch", "compress", "write", "batch_done"} THEN next_process + 1 ELSE 0

\* The pages of the ranges before range number b (1-based).
PagesBefore(b) == IF b <= 1 THEN << >> ELSE PageSeq(1, ranges[b - 1][2])

\* C21: batches are processed one at a time and in range order.  The
\* compression pool and the batch locals always belong to the one batch being
\* processed; when a batch is handed to compression the writing loop of every
\* earlier batch has run to its end (all the output so far lies in earlier
\* ranges, and is every page of them when all extractions were complete and no
\* result was skipped); and the batch processed next is always the one after
\* the batch just finished.
C21_BatchesSequentialInOrder ==
    /\ [](executor # 0 => (pc = "compress" /\ executor = CurrentBatch))
    /\ []((tasks # << >> \/ results # << >> \/ write_pos # 0)
            => pc \in {"compress", "write", "unwind", "returned"})
    /\ [](pc \in {"batch", "compress"} =>
            /\ write_pos = 0
            /\ \A i \in 1 .. Len(output) : output[i] < ranges[CurrentBatch][1]
            /\ CleanRun => output = PagesBefore(CurrentBatch))
    /\ [](pc = "write" =>
            \A i \in 1 .. Len(output) : output[i] <= ranges[CurrentBatch][2])
    /\ [][next_process' # next_process
            => \/ pc = "batch_done" /\ next_process' = next_process + 1
               \/ pc = "unwind" /\ next_process' = 0]_vars
    /\ [][(pc' = "compress" /\ pc # "compress")
            => (pc = "batch" /\ executor = 0 /\ pool # "active")]_vars

C21_Witness ==
    /\ pc = "compress"
    /\ CurrentBatch = 2
    /\ executor = 2
    /\ pool = "active"
    /\ output = PageSeq(1, ranges[1][2])
    /\ Len(output) = HARD_MIN_BATCH

\* The orchestrator is in one of its two result waits: future.result(timeout)
\* on an extraction, as_completed on the compression futures.
Waiting == pc \in {"extract", "compress"}

\* C22: a result wait never outlasts a stop.  Whenever the stop predicate
\* answers true while the orchestrator waits for an extraction result or for
\* compression results, then, with no task required to complete, the predicate
\* is withdrawn or the run takes a cancelled exit.
C22_StopEndsResultWaits ==
    (Waiting /\ stop_checker) ~> (~stop_checker \/ exitLine \in CancelLines)

\* C23: when the orchestrator has observed a stop and taken a cancelled exit,
\* no extraction future is left queued or running and no compression worker is
\* in flight, so that the return of compress has nothing to wait for.
C23_StopCancelsOutstandingWork ==
    (pc = "unwind" /\ exitLine \in CancelLines) =>
        /\ LiveFutures = {}
        /\ executor = 0
        /\ pool # "active"
        /\ \A i \in DOMAIN tasks : tasks[i] # "pending"

\* A step of the thread inside request_stop.
StopThreadStep == rpc' # rpc

\* C24: the stop flag is the only state shared between the threads: a step of
\* the thread calling request_stop changes the flag (and that thread's own
\* position) and nothing the orchestrator owns: not the executor handle, the
\* compression pool or its tasks, the counters or the window of futures.
C24_OnlyFlagShared ==
    [][StopThreadStep => UNCHANGED << executor, pool, tasks, beyondStop >>]_vars

\* The states of the run's state machine, numbered in their order: Init,
\* Analyzing, Piping, Finalizing, and the call being over.
Phase ==
    CASE pc = "init" -> 0
      [] pc \in {"precheck", "analyze"} -> 1
      [] pc \in {"loop", "extract", "batch", "compress", "write", "batch_done", "break"}
            -> IF pc = "loop" /\ next_process >= Len(ranges) THEN 3 ELSE 2
      [] pc \in {"final", "post"} -> 3
      [] OTHER -> 4

\* C25: if every submitted extraction and compression task eventually
\* completes or fails, every compress call ends in one of Done, Failed and
\* Cancelled (it returns true or false); the states before that are visited in
\* the order Init, Analyzing, Piping, Finalizing, none twice and none skipped
\* except on the way out; and the run is in Finalizing only when every range
\* has been consumed and every page of every range written.
C25_TerminatesThroughOrderedStates ==
    /\ <>(pc = "returned" /\ result \in {"true", "false"})
    /\ [][Phase' \in {Phase, Phase + 1, 4}]_vars
    /\ [](Phase = 3 => (next_process = Len(ranges) /\ output = PageSeq(1, total_pages)))

\* The ranges (1-based) some raster of which is in the scratch folder.
RangesOnDisk ==
    { k \in 1 .. Len(ranges) : \E p \in scratch : ranges[k][1] <= p /\ p <= ranges[k][2] }

C27_ResultsCoverRange ==
    (pc = "write" /\ write_pos = 1) =>
        LET r == ranges[next_process + 1] IN
        /\ Len(results) = r[2] - r[1] + 1
        /\ \A i, j \in 1 .. Len(results) : i # j => results[i] # results[j]

\* The orchestrator is at the head of an iteration of the loop of lines
\* 175-210 or waiting for the extraction result of range next_process.
AtLoopHead ==
    \/ pc = "loop" /\ next_process < Len(ranges)
    \/ pc = "extract"

\* C28 (as stated): throughout Piping, 0 <= next_process <= next_submit <=
\* number of ranges and the futures map holds exactly the range indices
\* next_process .. next_submit - 1.
C28_FuturesAreNextRanges ==
    Piping =>
        /\ 0 <= next_process
        /\ next_process <= next_submit
        /\ next_submit <= Len(ranges)
        /\ DOMAIN futures = next_process .. next_submit - 1

\* C28 (amended): throughout Piping 0 <= next_process <= next_submit <= number
\* of ranges; at the head of an iteration and during the wait for the
\* extraction result the futures map holds exactly the range indices
\* next_process .. next_submit - 1, and while the batch of range next_process
\* is processed (its future removed, next_process not yet advanced) exactly
\* next_process + 1 .. next_submit - 1.  Hence a range that remains to be
\* processed has its future, every range is submitted exactly once, and the
\* loop is never left through the missing-future break: the output is
\* finalized only when next_process has reached the number of ranges.
C28_FuturesAreNextRangesAtLoopHead ==
    /\ [](Piping =>
            /\ 0 <= next_process
            /\ next_process <= next_submit
            /\ next_submit <= Len(ranges))
    /\ [](AtLoopHead =>
            /\ DOMAIN futures = next_process .. next_submit - 1
            /\ next_process \in DOMAIN futures)
    /\ [](CurrentBatch # 0 => DOMAIN futures = next_process + 1 .. next_submit - 1)
    /\ [](pc # "break")
    /\ [](pc \in {"final", "post"} => next_process = Len(ranges))
    /\ []((pc = "unwind" /\ result = "true")
            => (next_process = Len(ranges) /\ next_submit = Len(ranges)))
    /\ [][(DOMAIN futures') \ (DOMAIN futures) = next_submit .. next_submit' - 1]_vars

C28_Witness ==
    /\ pc = "extract"
    /\ next_process = 2
    /\ next_submit = 4
    /\ Len(ranges) = 4
    /\ DOMAIN futures = {2, 3}
    /\ prefetch_batches = 3

\* C29: every batch that was compressed and written is followed by exactly
\* one progress event before the extraction result of the next batch is
\* awaited; across the events of a run pages_total is constant and
\* pages_processed never decreases; and a run that ends Done has published one
\* file_done summary, after all the progress events.
C29_OneSnapshotPerBatch ==
    /\ [](AtLoopHead =>
            /\ Len(events) = next_process
            /\ \A n \in 1 .. Len(events) : events[n].event = "progress")
    /\ [](\A n \in 1 .. Len(events) :
            /\ events[n].pages_total = total_pages
            /\ \A m \in 1 .. n : events[m].pages_processed <= events[n].pages_processed)
    /\ [](result = "true" =>
            /\ Len(events) = Len(ranges) + 1
            /\ events[Len(events)].event = "file_done"
            /\ \A n \in 1 .. Len(events) - 1 : events[n].event = "progress")
    /\ [][(pc = "batch_done" /\ image_paths # << >> /\ pc' # pc)
            => /\ pc' = "loop"
               /\ next_process' = next_process + 1
               /\ Len(events') = Len(events) + 1
               /\ SubSeq(events', 1, Len(events)) = events
               /\ events'[Len(events')] = Event("progress", pages_processed')]_vars

C29_Witness ==
    /\ pc = "returned"
    /\ result = "true"
    /\ Len(ranges) = 2
    /\ Len(events) = 3
    /\ events[1].pages_processed = HARD_MIN_BATCH
    /\ events[2].pages_processed = total_pages
    /\ events[3].event = "file_done"

\* The writing loop has dealt with the result at write_pos.
WriterMoves == pc = "write" /\ (pc' # pc \/ write_pos' # write_pos)

\* C30: a page append that fails is fatal.  A pass of the writing loop that
\* neither appends its page nor skips it for its dimensions ends the run at
\* once with false; and from then on no page of that batch or of a later one
\* is written and no file is put at the output path.
C30_AppendFailureIsFatal ==
    /\ [][(WriterMoves /\ output' = output /\ invalid_used' = invalid_used)
            => (pc' = "unwind" /\ result' = "false" /\ exitLine' = 329)]_vars
    /\ [](exitLine = 329 =>
            /\ pc \in {"unwind", "returned"}
            /\ result = "false"
            /\ ~out_file)
    /\ [][exitLine = 329 => (output' = output /\ pages_processed' = pages_processed)]_vars

C30_Witness ==
    /\ pc = "unwind"
    /\ exitLine = 329
    /\ result = "false"
    /\ next_process = 1
    /\ output = PageSeq(1, HARD_MIN_BATCH)
    /\ total_pages > HARD_MIN_BATCH
    /\ ~out_file

\* C31: however request_stop interleaves with the orchestrator's per-batch
\* pool, the pool of a batch is shut down, with none of its tasks left
\* pending, by the time _process_batch_modular returns; the executor handle is
\* None whenever no batch is being compressed; and the handle never names a
\* pool other than the one of the batch being compressed.
C31_PoolsShutDownHandleCleared ==
    /\ [](pc # "compress" =>
            /\ executor = 0
            /\ pool # "active"
            /\ \A i \in DOMAIN tasks : tasks[i] # "pending")
    /\ [](executor # 0 => executor = CurrentBatch)
    /\ [](ex # 0 => (rpc \in {"shutdown", "clear"} /\ ex \in 1 .. Len(ranges)))
    /\ [][(pc = "compress" /\ pc' # pc) => (pool' = "shutdown" /\ executor' = 0)]_vars

C31_Witness ==
    /\ rpc = "shutdown"
    /\ ex = 1
    /\ executor = 0
    /\ pool = "shutdown"
    /\ pc = "unwind"
    /\ exitLine = 282
    /\ stops = 2

\* The positions of the file_done events published so far.
FileDone == { n \in 1 .. Len(events) : events[n].event = "file_done" }

\* C32: compress publishes file_done if and only if it returns true, at most
\* once per call and only after the output has been moved to the output path;
\* a run that ends Failed or Cancelled publishes none.
C32_FileDoneIffTrue ==
    /\ pc = "returned" => (result = "true" <=> FileDone # {})
    /\ Cardinality(FileDone) <= 1
    /\ FileDone # {} => (out_file /\ ~temp_output /\ result = "true")
    /\ result = "false" => FileDone = {}
    /\ exitLine \in CancelLines \cup FailedLines => FileDone = {}

C32_Witness ==
    /\ pc = "returned"
    /\ result = "true"
    /\ FileDone = {Len(events)}
    /\ out_file
    /\ Len(ranges) = 1
    /\ exitLine = 118

\* The positions of the progress events published so far.
Progress == { n \in 1 .. Len(events) : events[n].event = "progress" }

\* C33: in every run that ends Done, pages_processed equals pages_total when
\* compress returns, and the last progress event published reports
\* pages_processed = pages_total.
C33_DoneReportsAllPages ==
    (pc = "returned" /\ result = "true") =>
        /\ pages_processed = total_pages
        /\ Progress # {}
        /\ \A n \in Progress :
              (\A m \in Progress : m <= n) => events[n].pages_processed = events[n].pages_total

\* C34: cancellation is not reported as an error.  A run that has taken a
\* cancelled exit returns false, has published no error event (and no
\* file_done), and leaves nothing at the output path and no temp output.
C34_CancelledIsNotAnError ==
    exitLine \in CancelLines =>
        /\ result = "false"
        /\ \A n \in 1 .. Len(events) : events[n].event = "progress"
        /\ ~out_file
        /\ pc = "returned" => (~temp_output /\ ~temp_dir)

C34_Witness ==
    /\ pc = "returned"
    /\ exitLine = 190
    /\ stop_requested
    /\ ~stop_checker
    /\ Len(events) = 1
    /\ events[1].event = "progress"
    /\ ~out_file

C36_BatchSizeInHardWindow ==
    total_pages >= 1 =>
        /\ HARD_MIN_BATCH <= batch_size
        /\ batch_size <= HARD_MAX_BATCH
        /\ \A k \in 1 .. Len(ranges) :
              LET pages == ranges[k][2] - ranges[k][1] + 1 IN
              IF k < Len(ranges) THEN pages = batch_size ELSE pages <= batch_size

C36_Witness ==
    /\ pc = "loop"
    /\ batch_size = HARD_MAX_BATCH
    /\ total_pages > 2 * HARD_MAX_BATCH
    /\ Len(ranges) = 3

====
